---- MODULE Spec2Model ----
(***************************************************************************)
(* A model of the rox tree-walking interpreter: the Environment frame      *)
(* chain (src/src/environment.rs), the callable values                     *)
(* (src/src/function.rs) and the evaluator (src/src/interpreter.rs,        *)
(* src/src/ast.rs).                                                        *)
(*                                                                         *)
(* An Environment owns its enclosing Environment by value (Box), so a      *)
(* chain is modelled as a sequence of frames, innermost first; cloning a   *)
(* chain is copying the sequence.                                          *)
(***************************************************************************)
EXTENDS Integers, Sequences, FiniteSets, TLC

VARIABLES
    env,          \* a free-standing Environment chain (the Environment API used directly)
    environment,  \* Interpreter.environment
    globals,      \* Interpreter.globals
    output,       \* the lines written to standard output
    status,       \* "running", "panicked" (the process aborted) or "looping"
    last,         \* the last operation performed: its inputs, pre-state and result
    scanner,      \* a Scanner: source, tokens, start, current, line, and how it ended
    parser        \* a Parser: tokens, current, and the statements parse has built

vars == <<env, environment, globals, output, status, last, scanner, parser>>

\* ------------------------------------------------------------------ bounds

\* Deepest free-standing frame chain built by EnvNew.
MaxDepth == 2

\* Largest value the native clock is observed to return.
MaxClock == 1

\* ------------------------------------------------------------------ values

\* ast.rs Value: String_, Bool, Number, Callable, Nil.
Nil == [t |-> "Nil"]

Bool(b) == [t |-> "Bool", b |-> b]

Number(n) == [t |-> "Number", n |-> n]

String_(s) == [t |-> "String_", s |-> s]

Callable(f) == [t |-> "Callable", f |-> f]

\* function.rs RoxFunction::Native / RoxFunction::User.
Native(arity) == [kind |-> "Native", arity |-> arity]

User(name, params, body) == [kind |-> "User", name |-> name, params |-> params, body |-> body]

\* Result<Value, RoxError> of Environment::get.
Ok(v) == [ok |-> TRUE, v |-> v]

Err(kind, name) == [ok |-> FALSE, err |-> kind, name |-> name]

\* ------------------------------------------------------------- Environment

\* HashMap::new(): the frame with no binding.
EmptyFrame == [x \in {} |-> Nil]

\* HashMap::insert(name, value).
Insert(frame, name, value) ==
    [x \in (DOMAIN frame) \cup {name} |-> IF x = name THEN value ELSE frame[x]]

\* Environment::new(enclosing): a fresh frame in front of the enclosing chain
\* (<<>> for None).
EnvironmentNew(enclosing) == <<EmptyFrame>> \o enclosing

\* Environment::define: always binds in the current (innermost) frame.
Define(chain, name, value) == [chain EXCEPT ![1] = Insert(chain[1], name, value)]

\* A lookup that tries the current frame only.
GetCurrentFrameOnly(chain, name) ==
    IF name \in DOMAIN chain[1]
    THEN Ok(chain[1][name])
    ELSE Err("UndefinedVariableError", name)

\* Environment::get: the current frame, else the enclosing chain, else the
\* undefined-variable error.
RECURSIVE Get(_, _)
Get(chain, name) ==
    IF name \in DOMAIN chain[1]
    THEN Ok(chain[1][name])
    ELSE IF Len(chain) > 1
         THEN Get(Tail(chain), name)
         ELSE Err("UndefinedVariableError", name)

\* Environment::assign: rebinds only when the current frame holds the name;
\* returns nothing.
Assign(chain, name, value) ==
    IF name \in DOMAIN chain[1]
    THEN [chain EXCEPT ![1] = Insert(chain[1], name, value)]
    ELSE chain

\* ------------------------------------------------- Environment API actions

EnvNames == {"a", "b"}

EnvValues == {Nil, Number(1), Number(2)}

\* Interpreter::new: globals holds the native clock; environment is a clone.
NewGlobals == Define(EnvironmentNew(<<>>), "clock", Callable(Native(0)))

NoOp == [op |-> "none"]

\* No scanner and no parser have been constructed.
IdleScanner == [state |-> "idle"]

IdleParser == [state |-> "idle"]

InitEnv ==
    /\ env = EnvironmentNew(<<>>)
    /\ environment = NewGlobals
    /\ globals = NewGlobals
    /\ output = <<>>
    /\ status = "running"
    /\ last = NoOp
    /\ scanner = IdleScanner
    /\ parser = IdleParser

\* Environment::new(Some(Box::new(env.clone()))), as in test_enclosing_environment.
EnvNew ==
    /\ Len(env) < MaxDepth
    /\ env' = EnvironmentNew(env)
    /\ last' = [op |-> "new", pre |-> env]
    /\ UNCHANGED <<environment, globals, output, status, scanner, parser>>

EnvDefine ==
    \E name \in EnvNames, value \in EnvValues :
        /\ env' = Define(env, name, value)
        /\ last' = [op |-> "define", name |-> name, value |-> value, pre |-> env]
        /\ UNCHANGED <<environment, globals, output, status, scanner, parser>>

EnvGet ==
    \E name \in EnvNames :
        /\ env' = env
        /\ last' = [op |-> "get", name |-> name, pre |-> env, result |-> Get(env, name)]
        /\ UNCHANGED <<environment, globals, output, status, scanner, parser>>

\* assign returns (): the caller is told nothing.
EnvAssign ==
    \E name \in EnvNames, value \in EnvValues :
        /\ env' = Assign(env, name, value)
        /\ last' = [op |-> "assign", name |-> name, value |-> value, pre |-> env,
                    result |-> "unit"]
        /\ UNCHANGED <<environment, globals, output, status, scanner, parser>>

NextEnv == EnvNew \/ EnvDefine \/ EnvGet \/ EnvAssign

SpecEnv == InitEnv /\ [][NextEnv]_vars

\* --------------------------------------------------------------------- AST

\* ast.rs Expr. A token is modelled by what the evaluator reads of it: the
\* token_type of an operator, the lexeme of an identifier. The paren token of
\* a call is read by nothing.
Literal(v) == [k |-> "Literal", v |-> v]

Unary(op, right) == [k |-> "Unary", op |-> op, right |-> right]

Binary(left, op, right) == [k |-> "Binary", left |-> left, op |-> op, right |-> right]

Grouping(e) == [k |-> "Grouping", e |-> e]

Var(name) == [k |-> "Var", name |-> name]

AssignE(name, e) == [k |-> "Assign", name |-> name, e |-> e]

Logical(left, op, right) == [k |-> "Logical", left |-> left, op |-> op, right |-> right]

Call(callee, args) == [k |-> "Call", callee |-> callee, args |-> args]

\* ast.rs Stmt (the constructors carry an S: Print is an operator of TLC).
\* None is the absent Option.
None == [k |-> "None"]

PrintS(e) == [k |-> "Print", e |-> e]

ExpressionS(e) == [k |-> "Expression", e |-> e]

BlockS(stmts) == [k |-> "Block", stmts |-> stmts]

VarS(name, init) == [k |-> "Var", name |-> name, init |-> init]

IfS(cond, thenS, elseS) == [k |-> "If", cond |-> cond, thenS |-> thenS, elseS |-> elseS]

WhileS(cond, body) == [k |-> "While", cond |-> cond, body |-> body]

FunctionS(name, params, body) ==
    [k |-> "Function", name |-> name, params |-> params, body |-> body]

\* --------------------------------------------------------------- evaluator

\* Value::equals.
ValueEquals(a, b) ==
    CASE a.t = "Nil" /\ b.t = "Nil" -> TRUE
      [] b.t = "Nil" -> FALSE
      [] a.t = "Nil" -> FALSE
      [] a.t = "Bool" /\ b.t = "Bool" -> a.b = b.b
      [] a.t = "Number" /\ b.t = "Number" -> a.n = b.n
      [] a.t = "String_" /\ b.t = "String_" -> a.s = b.s
      [] OTHER -> FALSE

\* A truthiness that also takes the number 0 and the empty string for falsy.
IsTruthyZeroFalsy(value) ==
    IF \/ ValueEquals(value, Nil)
       \/ ValueEquals(value, Bool(FALSE))
       \/ ValueEquals(value, Number(0))
       \/ ValueEquals(value, String_(""))
    THEN FALSE
    ELSE TRUE

\* Interpreter::is_truthy.
IsTruthy(value) ==
    IF ValueEquals(value, Nil) \/ ValueEquals(value, Bool(FALSE))
    THEN FALSE
    ELSE TRUE

\* Interpreter::is_equal. Numbers are integers here, so |a - b| < EPSILON is a = b.
IsEqual(a, b) ==
    CASE a.t = "Nil" /\ b.t = "Nil" -> TRUE
      [] a.t = "Bool" /\ b.t = "Bool" -> a.b = b.b
      [] a.t = "String_" /\ b.t = "String_" -> a.s = b.s
      [] a.t = "Number" /\ b.t = "Number" -> a.n = b.n
      [] OTHER -> FALSE

\* The outcome of evaluating an expression: the value returned and the
\* environment afterwards, or a panic (the process aborts; no value).
Returned(v, E) == [v |-> v, env |-> E, panic |-> FALSE]

Panicked(E) == [v |-> Nil, env |-> E, panic |-> TRUE]

RECURSIVE Evaluate(_, _)

\* visit_literal_expr: literal.into().
VisitLiteralExpr(literal, E) == Returned(literal, E)

\* visit_grouping_expr.
VisitGroupingExpr(group, E) == Evaluate(group, E)

\* visit_var_expr: get(&name).unwrap() panics on the undefined-variable error.
VisitVarExpr(name, E) ==
    LET r == Get(E, name) IN
    IF r.ok THEN Returned(r.v, E) ELSE Panicked(E)

\* visit_assignment_expr: evaluates, calls Environment::assign, returns the value.
VisitAssignmentExpr(name, expr, E) ==
    LET value == Evaluate(expr, E) IN
    IF value.panic THEN value
    ELSE Returned(value.v, Assign(value.env, name, value.v))

\* visit_logical_expr: for Or both branches return left; anything else
\* evaluates and returns right.
VisitLogicalExpr(left, op, right, E) ==
    LET l == Evaluate(left, E) IN
    IF l.panic THEN l
    ELSE IF op = "Or" /\ IsTruthy(l.v) THEN l
    ELSE IF op = "Or" /\ ~IsTruthy(l.v) THEN l
    ELSE Evaluate(right, l.env)

\* visit_unary_expr.
VisitUnaryExpr(op, right, E) ==
    LET r == Evaluate(right, E) IN
    IF r.panic THEN r
    ELSE CASE op = "Minus" ->
                IF r.v.t = "Number" THEN Returned(Number(0 - r.v.n), r.env)
                ELSE Panicked(r.env)
           [] op = "Bang" -> Returned(Bool(~IsTruthy(r.v)), r.env)
           [] OTHER -> Returned(Nil, r.env)

\* The arms of visit_binary_expr that need two numbers.
NumericOps == {"Minus", "Slash", "Star", "Greater", "GreaterEqual", "Less", "LessEqual"}

\* l / r on f64; the quotients the model's inputs form are exact.
Quotient(l, r) == IF r = 0 THEN 0 ELSE l \div r

NumericResult(op, l, r) ==
    CASE op = "Minus" -> Number(l - r)
      [] op = "Slash" -> Number(Quotient(l, r))
      [] op = "Star" -> Number(l * r)
      [] op = "Greater" -> Bool(l > r)
      [] op = "GreaterEqual" -> Bool(l >= r)
      [] op = "Less" -> Bool(l < r)
      [] op = "LessEqual" -> Bool(l <= r)

\* visit_binary_expr: both operands are evaluated first, left then right.
VisitBinaryExpr(left, op, right, E) ==
    LET l == Evaluate(left, E) IN
    IF l.panic THEN l
    ELSE
    LET r == Evaluate(right, l.env) IN
    IF r.panic THEN r
    ELSE CASE op \in NumericOps ->
                IF l.v.t = "Number" /\ r.v.t = "Number"
                THEN Returned(NumericResult(op, l.v.n, r.v.n), r.env)
                ELSE Panicked(r.env)
           [] op = "Plus" ->
                IF l.v.t = "Number" /\ r.v.t = "Number"
                THEN Returned(Number(l.v.n + r.v.n), r.env)
                ELSE IF l.v.t = "String_" /\ r.v.t = "String_"
                THEN Returned(String_(l.v.s \o r.v.s), r.env)
                ELSE Panicked(r.env)
           [] op = "BangEqual" -> Returned(Bool(~IsEqual(l.v, r.v)), r.env)
           [] op = "EqualEqual" -> Returned(Bool(IsEqual(l.v, r.v)), r.env)
           [] OTHER -> Returned(Nil, r.env)

\* The argument loop of visit_call_expr: each argument evaluated in order.
RECURSIVE EvaluateArgs(_, _)
EvaluateArgs(args, E) ==
    IF args = <<>> THEN Returned(Nil, E)
    ELSE LET a == Evaluate(Head(args), E) IN
         IF a.panic THEN a ELSE EvaluateArgs(Tail(args), a.env)

\* visit_call_expr: evaluates the callee and the arguments, then returns Nil;
\* the callee is not invoked and nothing is checked.
VisitCallExpr(callee, args, E) ==
    LET c == Evaluate(callee, E) IN
    IF c.panic THEN c
    ELSE LET a == EvaluateArgs(args, c.env) IN
         IF a.panic THEN a ELSE Returned(Nil, a.env)

\* ExprVisitor::evaluate: the dispatch on the kind of expression.
Evaluate(expr, E) ==
    CASE expr.k = "Literal" -> VisitLiteralExpr(expr.v, E)
      [] expr.k = "Unary" -> VisitUnaryExpr(expr.op, expr.right, E)
      [] expr.k = "Binary" -> VisitBinaryExpr(expr.left, expr.op, expr.right, E)
      [] expr.k = "Grouping" -> VisitGroupingExpr(expr.e, E)
      [] expr.k = "Var" -> VisitVarExpr(expr.name, E)
      [] expr.k = "Assign" -> VisitAssignmentExpr(expr.name, expr.e, E)
      [] expr.k = "Logical" -> VisitLogicalExpr(expr.left, expr.op, expr.right, E)
      [] expr.k = "Call" -> VisitCallExpr(expr.callee, expr.args, E)

\* -------------------------------------------------------------- statements

\* The outcome of executing a statement: the interpreter's environment
\* afterwards, whether the process panicked, whether the handler never returns.
Completed(E) == [env |-> E, panic |-> FALSE, loops |-> FALSE]

Aborted(E) == [env |-> E, panic |-> TRUE, loops |-> FALSE]

Spinning(E) == [env |-> E, panic |-> FALSE, loops |-> TRUE]

\* Interpreter::execute, the inherent method every self.execute(..) call of
\* interpreter.rs resolves to: its body is empty.
Execute(stmt, E) == E

\* for statement in statements { self.execute(&statement); }
RECURSIVE ExecuteAll(_, _)
ExecuteAll(statements, E) ==
    IF statements = <<>> THEN E
    ELSE ExecuteAll(Tail(statements), Execute(Head(statements), E))

\* Interpreter::execute_block: saves the current environment, runs the
\* statements with the given one installed, then reinstalls the saved one.
\* The result is [env |-> the environment afterwards, ran |-> the one the
\* statements left behind, which is dropped].
ExecuteBlock(statements, blockEnv, E) ==
    LET previous == E
        after == ExecuteAll(statements, blockEnv)
    IN  [env |-> previous, ran |-> after]

\* Interpreter::interpret.
Interpret(statements, E) == ExecuteAll(statements, E)

\* visit_if_stmt.
VisitIfStmt(cond, thenS, elseS, E) ==
    LET condition == Evaluate(cond, E) IN
    IF condition.panic THEN Aborted(condition.env)
    ELSE IF IsTruthy(condition.v) THEN Completed(Execute(thenS, condition.env))
    ELSE IF elseS # None THEN Completed(Execute(elseS, condition.env))
    ELSE Completed(condition.env)

\* visit_var_stmt.
VisitVarStmt(name, init, E) ==
    IF init # None
    THEN LET value == Evaluate(init, E) IN
         IF value.panic THEN Aborted(value.env)
         ELSE Completed(Define(value.env, name, value.v))
    ELSE Completed(Define(E, name, Nil))

\* visit_function_stmt: the function value holds name, params and body only.
VisitFunctionStmt(name, params, body, E) ==
    Completed(Define(E, name, Callable(User(name, params, body))))

\* visit_expr_stmt.
VisitExprStmt(e, E) ==
    LET value == Evaluate(e, E) IN
    IF value.panic THEN Aborted(value.env) ELSE Completed(value.env)

\* visit_while_stmt: the condition is evaluated once, before the loop; the
\* loop tests that one value, so a truthy condition never lets it return.
VisitWhileStmt(cond, body, E) ==
    LET condition == Evaluate(cond, E) IN
    IF condition.panic THEN Aborted(condition.env)
    ELSE IF IsTruthy(condition.v) THEN Spinning(Execute(body, condition.env))
    ELSE Completed(condition.env)

\* visit_print_stmt: evaluates the expression; nothing is written.
VisitPrintStmt(e, E) ==
    LET value == Evaluate(e, E) IN
    IF value.panic THEN Aborted(value.env) ELSE Completed(value.env)

\* visit_block_stmt: the block's environment is Environment::new(None).
VisitBlockStmt(statements, E) ==
    Completed(ExecuteBlock(statements, EnvironmentNew(<<>>), E).env)

\* StmtVisitor::execute (ast.rs): the dispatch on the kind of statement.
StmtVisitorExecute(stmt, E) ==
    CASE stmt.k = "Expression" -> VisitExprStmt(stmt.e, E)
      [] stmt.k = "Print" -> VisitPrintStmt(stmt.e, E)
      [] stmt.k = "Var" -> VisitVarStmt(stmt.name, stmt.init, E)
      [] stmt.k = "Block" -> VisitBlockStmt(stmt.stmts, E)
      [] stmt.k = "If" -> VisitIfStmt(stmt.cond, stmt.thenS, stmt.elseS, E)
      [] stmt.k = "While" -> VisitWhileStmt(stmt.cond, stmt.body, E)
      [] stmt.k = "Function" -> VisitFunctionStmt(stmt.name, stmt.params, stmt.body, E)

\* ---------------------------------------------------------------- callables

\* for i in 0..params.len() { environment.define(params[i], arguments[i]) }:
\* indexing arguments past its end panics. i counts from 1 here.
RECURSIVE BindParams(_, _, _, _)
BindParams(frame, params, arguments, i) ==
    IF i > Len(params) THEN [env |-> frame, panic |-> FALSE]
    ELSE IF i > Len(arguments) THEN [env |-> frame, panic |-> TRUE]
    ELSE BindParams(Define(frame, params[i], arguments[i]), params, arguments, i + 1)

\* RoxFunction::call. now is what the host clock reads (the one native).
\* frame is the environment handed to execute_block for the body.
RoxFunctionCall(f, arguments, E, G, now) ==
    IF f.kind = "Native"
    THEN [v |-> Number(now), env |-> E, panic |-> FALSE, frame |-> <<>>]
    ELSE LET bound == BindParams(EnvironmentNew(G), f.params, arguments, 1) IN
         IF bound.panic
         THEN [v |-> Nil, env |-> E, panic |-> TRUE, frame |-> bound.env]
         ELSE [v |-> Nil, env |-> ExecuteBlock(f.body, bound.env, E).env,
               panic |-> FALSE, frame |-> bound.env]

\* ------------------------------------------------------------------ inputs

LNil == Literal(Nil)

LFalse == Literal(Bool(FALSE))

LTrue == Literal(Bool(TRUE))

L1 == Literal(Number(1))

L2 == Literal(Number(2))

LS == Literal(String_("s"))

\* -"s": the operand of unary minus is not a number.
NegString == Unary("Minus", LS)

Lits == {LNil, LFalse, LTrue, L1, L2, LS}

Operands == Lits \cup {Var("a"), Var("b")}

Assigns == {AssignE("a", L2), AssignE("b", L1), AssignE("b", L2)}

Unaries == {Unary(op, x) : op \in {"Minus", "Bang"}, x \in {LNil, LFalse, L1, LS, Var("a")}}

BinaryOps ==
    {"Minus", "Star", "Plus", "Greater", "GreaterEqual", "Less", "LessEqual",
     "BangEqual", "EqualEqual"}

Binaries ==
    {Binary(x, op, y) : x \in {L2, LS}, op \in BinaryOps, y \in {L1, LS}}
    \cup {Binary(x, "Slash", y) : x \in {L2, LS}, y \in {L1, L2, LNil}}
    \cup {Binary(Var("a"), op, L1) : op \in {"Plus", "Less", "EqualEqual"}}
    \cup {Binary(LNil, op, y) : op \in {"Less", "EqualEqual"}, y \in {LNil, LFalse}}

Logicals ==
    {Logical(x, op, y) : x \in {LNil, LFalse, L1, Var("a"), NegString},
                         op \in {"And", "Or"},
                         y \in {L2, Var("b"), AssignE("a", L2)}}

ArgExprs == {<<>>, <<L1>>, <<L1, AssignE("a", L2)>>}

Calls == {Call(c, args) : c \in {Var("f"), Var("clock"), L1}, args \in ArgExprs}

Groupings == {Grouping(x) : x \in {L1, Var("a"), NegString}}

\* !true, !0, !"", !clock, !f
Negations ==
    {Unary("Bang", x) : x \in {LTrue, Literal(Number(0)), Literal(String_("")),
                               Var("clock"), Var("f")}}

Exprs == Operands \cup Assigns \cup Unaries \cup Binaries \cup Logicals \cup Calls
         \cup Groupings \cup Negations

VarStmts ==
    {VarS(n, init) : n \in {"a", "b"}, init \in {None, L1, Var("a"), NegString}}

ExprStmts == {ExpressionS(e) : e \in {AssignE("a", L2), NegString, Call(Var("f"), <<L1>>)}}

PrintStmts == {PrintS(e) : e \in {L1, Var("a"), NegString}}

BlockStmts ==
    {BlockS(<<>>),
     BlockS(<<ExpressionS(AssignE("a", L2))>>),
     BlockS(<<VarS("a", L2), PrintS(Var("a"))>>)}

IfStmts ==
    {IfS(c, ExpressionS(AssignE("a", L2)), e) : c \in {LTrue, Var("a"), NegString},
                                                 e \in {None, PrintS(L2)}}

WhileStmts ==
    {WhileS(c, ExpressionS(AssignE("a", LFalse))) : c \in {LFalse, LTrue, Var("a"), NegString}}

\* fun f() { f(); }   fun f(p) { print p; print a; a = p; }
FunctionStmts ==
    {FunctionS("f", <<>>, <<ExpressionS(Call(Var("f"), <<>>))>>),
     FunctionS("f", <<"p">>,
               <<PrintS(Var("p")), PrintS(Var("a")), ExpressionS(AssignE("a", Var("p")))>>)}

\* var a = 1; { var a = 2; print a; } print a;
ShadowProgram ==
    <<VarS("a", L1), BlockS(<<VarS("a", L2), PrintS(Var("a"))>>), PrintS(Var("a"))>>

Programs ==
    {<<>>,
     ShadowProgram,
     <<PrintS(L1), PrintS(L2)>>,
     <<ExpressionS(NegString), PrintS(L1)>>,
     <<PrintS(Var("b")), VarS("b", L1)>>,
     <<ExpressionS(Binary(L2, "Plus", LS)), VarS("a", L2)>>}

ArgLists == {<<>>, <<Number(1)>>, <<Number(1), Number(2)>>}

\* The callables bound in the interpreter's environment.
BoundCallables(E) ==
    {Get(E, n).v.f : n \in {n \in {"f", "clock"} : Get(E, n).ok /\ Get(E, n).v.t = "Callable"}}

\* ------------------------------------------------------ Interpreter actions

\* Interpreter::new().
Init ==
    /\ env = EnvironmentNew(<<>>)
    /\ environment = NewGlobals
    /\ globals = NewGlobals
    /\ output = <<>>
    /\ status = "running"
    /\ last = NoOp
    /\ scanner = IdleScanner
    /\ parser = IdleParser

\* One statement through StmtVisitor::execute.
Step(stmt) ==
    LET r == StmtVisitorExecute(stmt, environment) IN
    /\ environment' = r.env
    /\ status' = IF r.panic THEN "panicked" ELSE IF r.loops THEN "looping" ELSE "running"
    /\ last' = [op |-> "execute", stmt |-> stmt, pre |-> environment, out |-> output,
                outcome |-> IF r.panic THEN "panic" ELSE IF r.loops THEN "loops" ELSE "unit"]
    /\ UNCHANGED <<env, globals, output, scanner, parser>>

VisitVar == \E s \in VarStmts : status = "running" /\ Step(s)

VisitFunction == \E s \in FunctionStmts : status = "running" /\ Step(s)

VisitExpr == \E s \in ExprStmts : status = "running" /\ Step(s)

VisitPrint == \E s \in PrintStmts : status = "running" /\ Step(s)

VisitBlock == \E s \in BlockStmts : status = "running" /\ Step(s)

VisitIf == \E s \in IfStmts : status = "running" /\ Step(s)

VisitWhile == \E s \in WhileStmts : status = "running" /\ Step(s)

\* ExprVisitor::evaluate on one expression; the caller gets a Value or the
\* process has panicked.
DoEvaluate ==
    \E e \in Exprs :
        LET r == Evaluate(e, environment) IN
        /\ status = "running"
        /\ environment' = r.env
        /\ status' = IF r.panic THEN "panicked" ELSE "running"
        /\ last' = [op |-> "evaluate", expr |-> e, pre |-> environment, out |-> output,
                    outcome |-> IF r.panic THEN "panic" ELSE "value", value |-> r.v]
        /\ UNCHANGED <<env, globals, output, scanner, parser>>

\* Interpreter::interpret on a program; it returns ().
DoInterpret ==
    \E p \in Programs :
        /\ status = "running"
        /\ environment' = Interpret(p, environment)
        /\ last' = [op |-> "interpret", program |-> p, pre |-> environment,
                    out |-> output, outcome |-> "unit"]
        /\ UNCHANGED <<env, globals, output, status, scanner, parser>>

\* RoxFunction::call on a callable bound in the environment.
DoCall ==
    \E f \in BoundCallables(environment), arguments \in ArgLists, now \in 0..MaxClock :
        LET r == RoxFunctionCall(f, arguments, environment, globals, now) IN
        /\ status = "running"
        /\ environment' = r.env
        /\ status' = IF r.panic THEN "panicked" ELSE "running"
        /\ last' = [op |-> "call", f |-> f, arguments |-> arguments, pre |-> environment,
                    out |-> output, outcome |-> IF r.panic THEN "panic" ELSE "value",
                    value |-> r.v, frame |-> r.frame]
        /\ UNCHANGED <<env, globals, output, scanner, parser>>

Next ==
    \/ VisitVar
    \/ VisitFunction
    \/ VisitExpr
    \/ VisitPrint
    \/ VisitBlock
    \/ VisitIf
    \/ VisitWhile
    \/ DoEvaluate
    \/ DoInterpret
    \/ DoCall

Spec == Init /\ [][Next]_vars

\* ------------------------------------------------------------------ claims

\* The innermost frame of the chain that binds name.
NearestDefining(chain, name) ==
    CHOOSE i \in 1..Len(chain) :
        /\ name \in DOMAIN chain[i]
        /\ \A j \in 1..(i - 1) : name \notin DOMAIN chain[j]

\* C1: after assign(name, value) on a chain whose innermost frame does not
\* bind name while an enclosing frame does, the nearest enclosing frame that
\* binds name holds the new value, get(name) from the innermost frame returns
\* it, and no other binding of any frame has changed.
C1_AssignUpdatesNearestEnclosingFrame ==
    (/\ last.op = "assign"
     /\ last.name \notin DOMAIN last.pre[1]
     /\ Get(last.pre, last.name).ok)
    => LET i == NearestDefining(last.pre, last.name) IN
       /\ Get(env, last.name) = Ok(last.value)
       /\ env = [last.pre EXCEPT ![i] = Insert(last.pre[i], last.name, last.value)]

\* C2: evaluating an assignment to a name that no frame of the chain binds
\* ends in a runtime error (not a value, not a panic) and leaves every frame
\* as it was.
C2_AssignToUndefinedNameIsAnError ==
    (/\ last.op = "evaluate"
     /\ last.expr.k = "Assign"
     /\ last.expr.e \in Lits
     /\ ~Get(last.pre, last.expr.name).ok)
    => /\ last.outcome = "error"
       /\ environment = last.pre

\* The names of a parameter list.
ParamNames(params) == {params[i] : i \in 1..Len(params)}

\* C3: the frame a user function's body runs in is a new frame whose parent
\* is the environment the function was declared in, as it is at the call:
\* every name bound there that no parameter shadows, the function's own name
\* included, resolves from the body's frame to its current value.
C3_BodyFrameIsEnclosedByDeclaringEnvironment ==
    (/\ last.op = "call"
     /\ last.f.kind = "User"
     /\ last.outcome = "value")
    => /\ Len(last.frame) = Len(last.pre) + 1
       /\ \A n \in (DOMAIN last.pre[1]) \ ParamNames(last.f.params) :
              Get(last.frame, n) = Get(last.pre, n)

\* C4: after a block whose one statement assigns a literal to a variable that
\* only the enclosing scope declares, the enclosing scope reads the assigned
\* value.
C4_AssignmentInBlockMutatesEnclosingBinding ==
    (/\ last.op = "execute"
     /\ last.stmt.k = "Block"
     /\ Len(last.stmt.stmts) = 1
     /\ last.stmt.stmts[1].k = "Expression"
     /\ last.stmt.stmts[1].e.k = "Assign"
     /\ last.stmt.stmts[1].e.e \in Lits
     /\ Get(last.pre, last.stmt.stmts[1].e.name).ok)
    => Get(environment, last.stmt.stmts[1].e.name) = Ok(last.stmt.stmts[1].e.e.v)

\* C5: interpreting  var a = 1; { var a = 2; print a; } print a;  appends the
\* line 2 and then the line 1 to the output and leaves the outer a at 1.
C5_ShadowProgramPrintsTwoThenOne ==
    (last.op = "interpret" /\ last.program = ShadowProgram)
    => /\ output = last.out \o <<"2", "1">>
       /\ Get(environment, "a") = Ok(Number(1))

\* The user function a call expression's callee names, if it names one.
CalleeIsUser(expr, E) ==
    /\ expr.callee.k = "Var"
    /\ Get(E, expr.callee.name).ok
    /\ Get(E, expr.callee.name).v.t = "Callable"
    /\ Get(E, expr.callee.name).v.f.kind = "User"

\* C6: a call with a number of arguments other than the callee's arity ends
\* in a runtime arity error: a call expression naming a user function, and
\* an invocation of a user function, neither return a value nor panic.
C6_ArityMismatchIsARuntimeError ==
    /\ (/\ last.op = "evaluate"
        /\ last.expr.k = "Call"
        /\ CalleeIsUser(last.expr, last.pre)
        /\ Len(last.expr.args) # Len(Get(last.pre, last.expr.callee.name).v.f.params))
       => last.outcome = "error"
    /\ (/\ last.op = "call"
        /\ last.f.kind = "User"
        /\ Len(last.arguments) # Len(last.f.params))
       => last.outcome = "error"

\* fun f(p) { print p; print a; a = p; }
PrintAndStore ==
    User("f", <<"p">>,
         <<PrintS(Var("p")), PrintS(Var("a")), ExpressionS(AssignE("a", Var("p")))>>)

\* C7: evaluating f(1), f being  fun f(p) { print p; print a; a = p; }  and a
\* being declared, yields nil after the body ran once with p bound to 1: two
\* lines were printed, the first of them 1, and a is 1.
C7_CallRunsTheBodyAndYieldsNil ==
    (/\ last.op = "evaluate"
     /\ last.expr = Call(Var("f"), <<L1>>)
     /\ Get(last.pre, "f") = Ok(Callable(PrintAndStore))
     /\ Get(last.pre, "a").ok)
    => /\ last.outcome = "value"
       /\ last.value = Nil
       /\ Len(output) = Len(last.out) + 2
       /\ output[Len(last.out) + 1] = "1"
       /\ Get(environment, "a") = Ok(Number(1))

\* C8: the value of  l or r  is the value of l when that is truthy, and
\* otherwise the value of r evaluated after l.
C8_OrYieldsLeftIfTruthyElseRight ==
    (/\ last.op = "evaluate"
     /\ last.expr.k = "Logical"
     /\ last.expr.op = "Or"
     /\ ~Evaluate(last.expr.left, last.pre).panic)
    => LET l == Evaluate(last.expr.left, last.pre)
           r == Evaluate(last.expr.right, l.env)
       IN  IF IsTruthy(l.v)
           THEN last.outcome = "value" /\ last.value = l.v
           ELSE ~r.panic => (last.outcome = "value" /\ last.value = r.v)

\* C9: l and r  with l falsy yields the value of l and leaves the environment
\* as l left it (r is not evaluated); with l truthy it yields the value of r.
\* l or r  with l truthy leaves the environment as l left it.
C9_LogicalShortCircuits ==
    (/\ last.op = "evaluate"
     /\ last.expr.k = "Logical"
     /\ ~Evaluate(last.expr.left, last.pre).panic)
    => LET l == Evaluate(last.expr.left, last.pre)
           r == Evaluate(last.expr.right, l.env)
       IN  /\ (last.expr.op = "And" /\ ~IsTruthy(l.v))
              => (last.outcome = "value" /\ last.value = l.v /\ environment = l.env)
           /\ (last.expr.op = "And" /\ IsTruthy(l.v) /\ ~r.panic)
              => (last.outcome = "value" /\ last.value = r.v)
           /\ (last.expr.op = "Or" /\ IsTruthy(l.v))
              => environment = l.env

\* Operators on literal operands of the wrong types: unary minus on a
\* non-number, an arithmetic or comparison operator on a non-number, + on
\* operands that are neither both numbers nor both strings.
TypeErrorExprs ==
    {Unary("Minus", x) : x \in {LNil, LFalse, LS}}
    \cup {b \in Binaries :
            /\ b.left \in Lits /\ b.right \in Lits
            /\ b.op \in NumericOps \cup {"Plus"}
            /\ ~(b.left.v.t = "Number" /\ b.right.v.t = "Number")
            /\ ~(b.op = "Plus" /\ b.left.v.t = "String_" /\ b.right.v.t = "String_")}

FailsAtRuntime(e, E) ==
    \/ e \in TypeErrorExprs
    \/ e.k = "Var" /\ ~Get(E, e.name).ok

\* C10: an expression that fails at run time yields an error value and the
\* process goes on running; interpret on a program whose first statement
\* fails returns that error and executes nothing after it.
C10_RuntimeFailureIsReturnedAsAnError ==
    /\ (last.op = "evaluate" /\ FailsAtRuntime(last.expr, last.pre))
       => (last.outcome = "error" /\ status = "running")
    /\ (/\ last.op = "interpret"
        /\ last.program # <<>>
        /\ Head(last.program).k \in {"Expression", "Print"}
        /\ FailsAtRuntime(Head(last.program).e, last.pre))
       => (last.outcome = "error" /\ status = "running" /\ environment = last.pre)

\* The frames of the chain that bind name.
DefiningFrames(chain, name) == {i \in 1..Len(chain) : name \in DOMAIN chain[i]}

\* C19: get(name) returns the binding of the innermost frame of the chain that
\* binds name and fails with the undefined-variable error exactly when no
\* frame binds it; get changes no binding; after define(name, value) a get of
\* name returns value, whatever the enclosing frames bind.
C19_GetReturnsInnermostBinding ==
    /\ last.op = "get"
       => /\ env = last.pre
          /\ IF DefiningFrames(last.pre, last.name) = {}
             THEN last.result = Err("UndefinedVariableError", last.name)
             ELSE LET i == NearestDefining(last.pre, last.name) IN
                  last.result = Ok(last.pre[i][last.name])
    /\ last.op = "define"
       => /\ Get(env, last.name) = Ok(last.value)
          /\ Tail(env) = Tail(last.pre)

\* A get of a name that only an enclosing frame binds.
C19_Witness ==
    /\ last.op = "get"
    /\ last.name \notin DOMAIN last.pre[1]
    /\ DefiningFrames(last.pre, last.name) # {}

\* C20: !v is the boolean true exactly when v is nil or the boolean false,
\* and the boolean false for every other value: true, every number (0
\* included), every string (the empty one included), every callable.
C20_OnlyNilAndFalseAreFalsy ==
    (/\ last.op = "evaluate"
     /\ last.expr.k = "Unary"
     /\ last.expr.op = "Bang"
     /\ ~Evaluate(last.expr.right, last.pre).panic)
    => LET v == Evaluate(last.expr.right, last.pre).v IN
       /\ last.outcome = "value"
       /\ last.value = Bool(v.t = "Nil" \/ (v.t = "Bool" /\ v.b = FALSE))
       /\ IsTruthy(v) = ~last.value.b

\* !0 was evaluated and gave false.
C20_Witness ==
    /\ last.op = "evaluate"
    /\ last.expr = Unary("Bang", Literal(Number(0)))
    /\ last.value = Bool(FALSE)

\* while (a) a = false;
FlagLoop == WhileS(Var("a"), ExpressionS(AssignE("a", LFalse)))

\* C22: executing  while (a) a = false;  with a declared terminates: with a
\* truthy the body runs once, so a is false afterwards; with a falsy the body
\* does not run and the environment is as before.
C22_WhileRunsBodyOncePerTruthyCondition ==
    (/\ last.op = "execute"
     /\ last.stmt = FlagLoop
     /\ Get(last.pre, "a").ok)
    => /\ last.outcome = "unit"
       /\ IF IsTruthy(Get(last.pre, "a").v)
          THEN Get(environment, "a") = Ok(Bool(FALSE))
          ELSE environment = last.pre

\* ----------------------------------------------------------------- Scanner

\* Longest source text scanned.
MaxSourceLen == 3

\* Token::new(token_type, lexeme, literal, line). A lexeme is the sequence of
\* its characters; the literal is None when absent.
Token(type, lexeme, literal, line) ==
    [type |-> type, lexeme |-> lexeme, literal |-> literal, line |-> line]

Quote == "\""

Newline == "\n"

\* What peek and peek_next return at the end of the source.
Nul == "NUL"

\* KEYWORDS, the lazy_static keyword table.
Keywords ==
    [ text \in {<<"a", "n", "d">>, <<"c", "l", "a", "s", "s">>, <<"e", "l", "s", "e">>,
                <<"f", "a", "l", "s", "e">>, <<"f", "o", "r">>, <<"f", "u", "n">>,
                <<"i", "f">>, <<"n", "i", "l">>, <<"o", "r">>,
                <<"p", "r", "i", "n", "t">>, <<"r", "e", "t", "u", "r", "n">>,
                <<"s", "u", "p", "e", "r">>, <<"t", "h", "i", "s">>,
                <<"t", "r", "u", "e">>, <<"v", "a", "r">>, <<"w", "h", "i", "l", "e">>}
      |-> CASE text = <<"a", "n", "d">> -> "And"
            [] text = <<"c", "l", "a", "s", "s">> -> "Class"
            [] text = <<"e", "l", "s", "e">> -> "Else"
            [] text = <<"f", "a", "l", "s", "e">> -> "False"
            [] text = <<"f", "o", "r">> -> "For"
            [] text = <<"f", "u", "n">> -> "Fun"
            [] text = <<"i", "f">> -> "If"
            [] text = <<"n", "i", "l">> -> "Nil"
            [] text = <<"o", "r">> -> "Or"
            [] text = <<"p", "r", "i", "n", "t">> -> "Print"
            [] text = <<"r", "e", "t", "u", "r", "n">> -> "Return"
            [] text = <<"s", "u", "p", "e", "r">> -> "Super"
            [] text = <<"t", "h", "i", "s">> -> "This"
            [] text = <<"t", "r", "u", "e">> -> "True"
            [] text = <<"v", "a", "r">> -> "Var"
            [] text = <<"w", "h", "i", "l", "e">> -> "While" ]

DigitChars == <<"0", "1", "2", "3", "4", "5", "6", "7", "8", "9">>

\* Scanner::is_digit: c.is_digit(10).
IsDigit(c) == \E i \in 1..10 : DigitChars[i] = c

LetterChars ==
    {"a", "b", "c", "d", "e", "f", "g", "h", "i", "j", "k", "l", "m", "n", "o", "p", "q",
     "r", "s", "t", "u", "v", "w", "x", "y", "z",
     "A", "B", "C", "D", "E", "F", "G", "H", "I", "J", "K", "L", "M", "N", "O", "P", "Q",
     "R", "S", "T", "U", "V", "W", "X", "Y", "Z"}

\* Scanner::is_alphanumeric: c.is_ascii_alphanumeric() || c == '_'.
IsAlphanumeric(c) == c \in LetterChars \/ IsDigit(c) \/ c = "_"

\* f64::from_str on the lexeme of a number: digits, or digits '.' digits.
\* An integral value is Number(n); otherwise the fraction's digits, without
\* trailing zeros, are kept beside the integer part.
DigitValue(c) == (CHOOSE i \in 1..10 : DigitChars[i] = c) - 1

RECURSIVE DigitsValue(_)
DigitsValue(digits) ==
    IF digits = <<>> THEN 0
    ELSE 10 * DigitsValue(SubSeq(digits, 1, Len(digits) - 1)) + DigitValue(digits[Len(digits)])

RECURSIVE StripZeros(_)
StripZeros(digits) ==
    IF digits # <<>> /\ digits[Len(digits)] = "0"
    THEN StripZeros(SubSeq(digits, 1, Len(digits) - 1))
    ELSE digits

F64FromStr(lexeme) ==
    LET dots == {i \in 1..Len(lexeme) : lexeme[i] = "."} IN
    IF dots = {} THEN Number(DigitsValue(lexeme))
    ELSE LET d == CHOOSE i \in dots : TRUE
             whole == DigitsValue(SubSeq(lexeme, 1, d - 1))
             frac == StripZeros(SubSeq(lexeme, d + 1, Len(lexeme)))
         IN  IF frac = <<>> THEN Number(whole)
             ELSE [t |-> "Number", n |-> whole, frac |-> frac]

\* Scanner::new. start and current count characters from 0, as in the code.
\* discarded holds the RoxError values the scanner constructs and drops;
\* skipped holds the positions of the characters it found unexpected.
ScannerNew(source) ==
    [state |-> "scanning", source |-> source, tokens |-> <<>>, start |-> 0,
     current |-> 0, line |-> 1, discarded |-> <<>>, skipped |-> {}]

\* char::len_utf8: the bytes a character takes in the source String. The
\* one character of the model outside ASCII takes two.
NonAscii == "é"

LenUtf8(c) == IF c = NonAscii THEN 2 ELSE 1

\* The byte offset of the character with 0-based index i.
RECURSIVE ByteOffset(_, _)
ByteOffset(source, i) ==
    IF i = 0 THEN 0 ELSE ByteOffset(source, i - 1) + LenUtf8(source[i])

\* String::len: the length in bytes.
StrLen(source) == ByteOffset(source, Len(source))

\* str::is_char_boundary.
IsCharBoundary(source, byte) == \E i \in 0..Len(source) : ByteOffset(source, i) = byte

\* &source[from..to], a slice by byte offsets: it panics unless both ends are
\* character boundaries in order.
SliceOk(source, from, to) ==
    /\ from <= to
    /\ IsCharBoundary(source, from)
    /\ IsCharBoundary(source, to)

Slice(source, from, to) ==
    SubSeq(source,
           (CHOOSE i \in 0..Len(source) : ByteOffset(source, i) = from) + 1,
           CHOOSE j \in 0..Len(source) : ByteOffset(source, j) = to)

\* A panic of the scanner: unwrap on None, or a slice off a boundary.
ScanPanic(S) == [S EXCEPT !.state = "panicked"]

\* What stands for the character of chars().nth(n).unwrap() when there is no
\* n-th character.
NoChar == "unwrap on None"

\* Scanner::is_at_end: the cursor, which counts characters, against the
\* length in bytes.
ScanIsAtEnd(S) == S.current >= StrLen(S.source)

\* Scanner::advance: chars().nth(current - 1).unwrap() panics past the last
\* character.
ScanAdvance(S) ==
    IF S.state = "panicked" THEN S
    ELSE IF S.current >= Len(S.source)
    THEN [S EXCEPT !.current = @ + 1, !.state = "panicked"]
    ELSE [S EXCEPT !.current = @ + 1]

\* Scanner::peek.
ScanPeek(S) ==
    IF ScanIsAtEnd(S) THEN Nul
    ELSE IF S.current < Len(S.source) THEN S.source[S.current + 1]
    ELSE NoChar

\* Scanner::peek_next.
PeekNext(S) ==
    IF S.current + 1 >= StrLen(S.source) THEN Nul
    ELSE IF S.current + 1 < Len(S.source) THEN S.source[S.current + 2]
    ELSE NoChar

\* Scanner::match_char: whether the next character is the expected one.
MatchChar(S, expected) ==
    /\ S.state # "panicked"
    /\ ~ScanIsAtEnd(S)
    /\ ScanPeek(S) = expected

\* Scanner::match_char: the scanner after it; the character is consumed when
\* it is the expected one.
AfterMatchChar(S, expected) ==
    IF S.state = "panicked" \/ ScanIsAtEnd(S) THEN S
    ELSE IF ScanPeek(S) = NoChar THEN ScanPanic(S)
    ELSE IF ScanPeek(S) = expected THEN [S EXCEPT !.current = @ + 1]
    ELSE S

\* Scanner::add_token_with_literal: the lexeme is source[start..current].
AddTokenWithLiteral(S, type, literal) ==
    IF S.state = "panicked" THEN S
    ELSE IF ~SliceOk(S.source, S.start, S.current) THEN ScanPanic(S)
    ELSE [S EXCEPT !.tokens =
            Append(@, Token(type, Slice(S.source, S.start, S.current), literal, S.line))]

\* Scanner::add_token.
AddToken(S, type) == AddTokenWithLiteral(S, type, None)

\* RoxError::UnexpectedCharacterError(self.line.to_string()); as a statement:
\* the value is constructed and dropped.
DropError(S) ==
    [S EXCEPT !.discarded = Append(@, [err |-> "UnexpectedCharacterError", line |-> S.line])]

\* The loop of Scanner::string: up to the closing quote or the end.
RECURSIVE StringLoop(_)
StringLoop(S) ==
    IF S.state = "panicked" THEN S
    ELSE IF ScanPeek(S) = NoChar THEN ScanPanic(S)
    ELSE IF ScanPeek(S) # Quote /\ ~ScanIsAtEnd(S)
    THEN StringLoop(ScanAdvance(IF ScanPeek(S) = Newline
                                THEN [S EXCEPT !.line = @ + 1] ELSE S))
    ELSE S

\* Scanner::string: after the loop the closing quote is consumed by advance,
\* at the end of the source too.
ScanString(S) ==
    LET looped == StringLoop(S)
        noted == IF looped.state # "panicked" /\ ScanIsAtEnd(looped)
                 THEN DropError(looped) ELSE looped
        closed == ScanAdvance(noted)
    IN  IF closed.state = "panicked" THEN closed
        ELSE IF ~SliceOk(closed.source, closed.start + 1, closed.current - 1)
        THEN ScanPanic(closed)
        ELSE AddTokenWithLiteral(closed, "String_",
                String_(Slice(closed.source, closed.start + 1, closed.current - 1)))

\* while self.is_digit(self.peek()) { self.advance(); }
RECURSIVE DigitLoop(_)
DigitLoop(S) ==
    IF S.state = "panicked" THEN S
    ELSE IF ScanPeek(S) = NoChar THEN ScanPanic(S)
    ELSE IF IsDigit(ScanPeek(S)) THEN DigitLoop(ScanAdvance(S))
    ELSE S

\* A number that takes a '.' after its digits whatever follows the '.'.
ScanNumberTakesAnyDot(S) ==
    LET whole == DigitLoop(S)
        all == IF whole.state # "panicked" /\ ScanPeek(whole) = "."
               THEN DigitLoop(ScanAdvance(whole))
               ELSE whole
    IN  IF all.state = "panicked" THEN all
        ELSE IF ~SliceOk(all.source, all.start, all.current) THEN ScanPanic(all)
        ELSE AddTokenWithLiteral(all, "Number",
                F64FromStr(Slice(all.source, all.start, all.current)))

\* Scanner::number.
ScanNumber(S) ==
    LET whole == DigitLoop(S)
        all == IF whole.state = "panicked" THEN whole
               ELSE IF ScanPeek(whole) = "." /\ PeekNext(whole) = NoChar
               THEN ScanPanic(whole)
               ELSE IF ScanPeek(whole) = "." /\ IsDigit(PeekNext(whole))
               THEN DigitLoop(ScanAdvance(whole))
               ELSE whole
    IN  IF all.state = "panicked" THEN all
        ELSE IF ~SliceOk(all.source, all.start, all.current) THEN ScanPanic(all)
        ELSE AddTokenWithLiteral(all, "Number",
                F64FromStr(Slice(all.source, all.start, all.current)))

\* while self.is_alphanumeric(self.peek()) { self.advance(); }
RECURSIVE AlphanumericLoop(_)
AlphanumericLoop(S) ==
    IF S.state = "panicked" THEN S
    ELSE IF ScanPeek(S) = NoChar THEN ScanPanic(S)
    ELSE IF IsAlphanumeric(ScanPeek(S)) THEN AlphanumericLoop(ScanAdvance(S))
    ELSE S

\* Scanner::identifier.
ScanIdentifier(S) ==
    LET run == AlphanumericLoop(S) IN
    IF run.state = "panicked" THEN run
    ELSE IF ~SliceOk(run.source, run.start, run.current) THEN ScanPanic(run)
    ELSE LET text == Slice(run.source, run.start, run.current) IN
         AddToken(run, IF text \in DOMAIN Keywords THEN Keywords[text] ELSE "Identifier")

\* The comment loop of scan_token: up to the end of the line.
RECURSIVE CommentLoop(_)
CommentLoop(S) ==
    IF S.state = "panicked" THEN S
    ELSE IF ScanPeek(S) = NoChar THEN ScanPanic(S)
    ELSE IF ScanPeek(S) # Newline /\ ~ScanIsAtEnd(S) THEN CommentLoop(ScanAdvance(S))
    ELSE S

SingleCharTokens ==
    [c \in {"(", ")", "{", "}", ",", ".", "-", "+", ";", "*"} |->
        CASE c = "(" -> "LeftParen"
          [] c = ")" -> "RightParen"
          [] c = "{" -> "LeftBrace"
          [] c = "}" -> "RightBrace"
          [] c = "," -> "Comma"
          [] c = "." -> "Dot"
          [] c = "-" -> "Minus"
          [] c = "+" -> "Plus"
          [] c = ";" -> "Semicolon"
          [] c = "*" -> "Star"]

\* The arm of scan_token for a character no other arm takes.
ScanOther(S, c) ==
    IF IsDigit(c) THEN ScanNumber(S)
    ELSE IF IsAlphanumeric(c) THEN ScanIdentifier(S)
    ELSE [DropError(S) EXCEPT !.skipped = @ \cup {S.current - 1}]

\* Scanner::scan_token.
ScanToken(S0) ==
    LET S == ScanAdvance(S0)
        c == S.source[S.current]
    IN  IF S.state = "panicked" THEN S
        ELSE
        CASE c \in DOMAIN SingleCharTokens -> AddToken(S, SingleCharTokens[c])
          [] c = "!" -> AddToken(AfterMatchChar(S, "="),
                                 IF MatchChar(S, "=") THEN "BangEqual" ELSE "Bang")
          [] c = "=" -> AddToken(AfterMatchChar(S, "="),
                                 IF MatchChar(S, "=") THEN "EqualEqual" ELSE "Equal")
          [] c = "<" -> AddToken(AfterMatchChar(S, "="),
                                 IF MatchChar(S, "=") THEN "LessEqual" ELSE "Less")
          [] c = ">" -> AddToken(AfterMatchChar(S, "="),
                                 IF MatchChar(S, "=") THEN "GreaterEqual" ELSE "Greater")
          [] c = "/" -> IF MatchChar(S, "/")
                        THEN CommentLoop(AfterMatchChar(S, "/"))
                        ELSE AddToken(AfterMatchChar(S, "/"), "Slash")
          [] c \in {" ", "\r", "\t"} -> S
          [] c = Newline -> [S EXCEPT !.line = @ + 1]
          [] c = Quote -> ScanString(S)
          [] c = "o" -> IF MatchChar(S, "r")
                        THEN AddToken(AfterMatchChar(S, "r"), "Or")
                        ELSE AfterMatchChar(S, "r")
          [] OTHER -> ScanOther(S, c)

\* The end of Scanner::scan_tokens: the Eof token, with the empty lexeme.
PushEof(S) ==
    [S EXCEPT !.tokens = Append(@, Token("Eof", <<>>, None, S.line)), !.state = "done"]

\* Scanner::scan_tokens, run to its end.
RECURSIVE ScanTokens(_)
ScanTokens(S) ==
    IF S.state # "scanning" THEN S
    ELSE IF ScanIsAtEnd(S) THEN PushEof(S)
    ELSE ScanTokens(ScanToken([S EXCEPT !.start = S.current]))

\* What scan_tokens hands to its caller besides the tokens: it returns
\* Vec<Token> and the Scanner has no field for errors.
ReportedErrors(S) == <<>>

\* ---------------------------------------------------------- Scanner actions

Alphabet ==
    {"o", "r", "a", "1", ".", Quote, "#", NonAscii, " ", Newline, "!", "=", "/"}

RECURSIVE SourcesOfLen(_)
SourcesOfLen(n) ==
    IF n = 0 THEN {<<>>}
    ELSE {Append(src, c) : src \in SourcesOfLen(n - 1), c \in Alphabet}

Sources == UNION {SourcesOfLen(n) : n \in 0..MaxSourceLen}

InitScan ==
    /\ env = EnvironmentNew(<<>>)
    /\ environment = NewGlobals
    /\ globals = NewGlobals
    /\ output = <<>>
    /\ status = "running"
    /\ last = NoOp
    /\ scanner \in {ScannerNew(source) : source \in Sources}
    /\ parser = IdleParser

\* One turn of the loop of scan_tokens: start = current; scan_token().
ScanStep ==
    /\ scanner.state = "scanning"
    /\ ~ScanIsAtEnd(scanner)
    /\ scanner' = ScanToken([scanner EXCEPT !.start = scanner.current])
    /\ UNCHANGED <<env, environment, globals, output, status, last, parser>>

\* The loop of scan_tokens has ended: Eof is pushed and the tokens returned.
ScanEof ==
    /\ scanner.state = "scanning"
    /\ ScanIsAtEnd(scanner)
    /\ scanner' = PushEof(scanner)
    /\ UNCHANGED <<env, environment, globals, output, status, last, parser>>

NextScan == ScanStep \/ ScanEof

SpecScan == InitScan /\ [][NextScan]_vars

\* ----------------------------------------------------------- Scanner claims

\* C15: a source that is one run of alphanumeric or underscore characters not
\* starting with a digit scans to exactly one token, whose lexeme is the whole
\* source and whose kind is the keyword's when the run is a reserved word and
\* Identifier otherwise, followed by Eof.
C15_IdentifierRunIsOneToken ==
    (/\ scanner.state = "done"
     /\ scanner.source # <<>>
     /\ \A i \in 1..Len(scanner.source) : IsAlphanumeric(scanner.source[i])
     /\ ~IsDigit(scanner.source[1]))
    => scanner.tokens =
         <<Token(IF scanner.source \in DOMAIN Keywords
                 THEN Keywords[scanner.source] ELSE "Identifier",
                 scanner.source, None, 1),
           Token("Eof", <<>>, None, 1)>>

\* C16: scanning never aborts the process, and when it has ended the caller
\* holds one error, with its line, for every unexpected character and every
\* unterminated string the scanner met, and a token sequence ending in Eof.
C16_LexicalErrorsAreReportedWithLine ==
    /\ scanner.state # "panicked"
    /\ scanner.state = "done"
       => /\ ReportedErrors(scanner) = scanner.discarded
          /\ scanner.tokens[Len(scanner.tokens)].type = "Eof"

\* The source with the character at 0-based position i replaced by a space.
WithSpaceAt(source, i) == [source EXCEPT ![i + 1] = " "]

\* C17: when scanning has ended, the tokens (and the way it ended) are those
\* of the same source with any one of the unexpected characters replaced by a
\* space: the scanner skipped that one character and went on.
C17_UnexpectedCharacterIsSkippedLikeASpace ==
    scanner.state \in {"done", "panicked"}
    => \A i \in scanner.skipped :
          LET other == ScanTokens(ScannerNew(WithSpaceAt(scanner.source, i))) IN
          /\ other.tokens = scanner.tokens
          /\ other.state = scanner.state
          /\ other.current = scanner.current

\* C18: the cursor never passes the end of the source, scanning never aborts,
\* and when it has ended the cursor is at the end of the source and the token
\* sequence holds exactly one Eof token, its last.
C18_ScanConsumesAllAndEndsWithOneEof ==
    /\ scanner.state # "panicked"
    /\ scanner.start <= scanner.current
    /\ scanner.current <= Len(scanner.source)
    /\ scanner.state = "done"
       => /\ scanner.current = Len(scanner.source)
          /\ {i \in 1..Len(scanner.tokens) : scanner.tokens[i].type = "Eof"}
               = {Len(scanner.tokens)}

\* The last position of the run of digits that starts at position i (i - 1
\* when there is no digit at i).
DigitRunEnd(source, i) ==
    CHOOSE j \in (i - 1)..Len(source) :
        /\ \A k \in i..j : IsDigit(source[k])
        /\ j = Len(source) \/ ~IsDigit(source[j + 1])

\* The lexemes of a source of digits, dots and spaces, from position i on: a
\* number is a run of digits, with a '.' and the run of digits after it when
\* a digit follows the '.'; any other '.' is a Dot.
RECURSIVE NumberLexemes(_, _)
NumberLexemes(source, i) ==
    IF i > Len(source) THEN <<>>
    ELSE IF source[i] = " " THEN NumberLexemes(source, i + 1)
    ELSE IF source[i] = "."
    THEN <<[type |-> "Dot", lexeme |-> <<".">>]>> \o NumberLexemes(source, i + 1)
    ELSE LET whole == DigitRunEnd(source, i)
             fraction == whole + 2 <= Len(source) /\ source[whole + 1] = "."
                         /\ IsDigit(source[whole + 2])
             end == IF fraction THEN DigitRunEnd(source, whole + 2) ELSE whole
         IN  <<[type |-> "Number", lexeme |-> SubSeq(source, i, end)]>>
             \o NumberLexemes(source, end + 1)

MaxParameters == 255

\* RoxError values of the parser.
ParseError(token, message) == [err |-> "ParseError", token |-> token, message |-> message]

InvalidAssignmentError(token) == [err |-> "InvalidAssignmentError", token |-> token]

UnexpectedError == [err |-> "UnexpectedError"]

MaxParameterLimitError == [err |-> "MaxParameterLimitError"]

\* What a parsing method leaves behind: Ok(v) or Err(e) with the cursor where
\* the method left it (the cursor moves on an Err too), or a panic.
POk(v, cur) == [r |-> "ok", v |-> v, cur |-> cur]

PErr(e, cur) == [r |-> "err", e |-> e, cur |-> cur]

PPanic(cur) == [r |-> "panic", cur |-> cur]

\* An Option that is None without anything having been parsed.
Absent(cur) == [r |-> "none", cur |-> cur]

\* Result::ok(): Some(v) of an Ok, None of an Err.
OkOption(res) == IF res.r = "ok" THEN res.v ELSE None

\* Parser::peek. T is the token vector, cur the 0-based cursor.
ParserPeek(T, cur) == T[cur + 1]

\* Parser::is_at_end.
ParserIsAtEnd(T, cur) == ParserPeek(T, cur).type = "Eof"

\* Parser::previous.
Previous(T, cur) == T[cur]

\* Parser::advance: the cursor after it.
ParserAdvance(T, cur) == IF ~ParserIsAtEnd(T, cur) THEN cur + 1 ELSE cur

\* Parser::check.
Check(T, cur, type) == ~ParserIsAtEnd(T, cur) /\ ParserPeek(T, cur).type = type

\* Parser::match_types: whether it matched; it then advanced by one.
MatchTypes(T, cur, types) == \E type \in types : Check(T, cur, type)

\* A consume that steps over the token it did not expect.
ConsumeSteppingOver(T, cur, type, message) ==
    IF Check(T, cur, type)
    THEN POk(Previous(T, ParserAdvance(T, cur)), ParserAdvance(T, cur))
    ELSE PErr(ParseError(ParserPeek(T, cur), message), cur + 1)

\* Parser::consume.
Consume(T, cur, type, message) ==
    IF Check(T, cur, type)
    THEN POk(Previous(T, ParserAdvance(T, cur)), ParserAdvance(T, cur))
    ELSE PErr(ParseError(ParserPeek(T, cur), message), cur)

\* let r = res; next(r): the result of a step, computed once, handed to what
\* follows it.
Then(res, Rest(_)) == CHOOSE out \in {Rest(r) : r \in {res}} : TRUE

\* res?: what is not Ok is returned at once.
Try(res, Rest(_)) == Then(res, LAMBDA r : IF r.r # "ok" THEN r ELSE Rest(r))

\* res.ok(): an Err goes on as None; only a panic ends the method.
TryOption(res, Rest(_)) == Then(res, LAMBDA r : IF r.r = "panic" THEN r ELSE Rest(r))

RECURSIVE ParseExpression(_, _), ParseAssignment(_, _), ParseOr(_, _), OrLoop(_, _, _)
RECURSIVE ParseAnd(_, _), AndLoop(_, _, _), ParseEquality(_, _), EqualityLoop(_, _, _)
RECURSIVE ParseComparison(_, _), ComparisonLoop(_, _, _), ParseTerm(_, _), TermLoop(_, _, _)
RECURSIVE ParseFactor(_, _), FactorLoop(_, _, _), ParseUnary(_, _), ParseCall(_, _)
RECURSIVE CallLoop(_, _, _), FinishCall(_, _, _), ArgsLoop(_, _, _), ParsePrimary(_, _)

\* Parser::primary. A variable is kept by its lexeme, a literal by its value.
ParsePrimary(T, cur) ==
    IF MatchTypes(T, cur, {"False"}) THEN POk(Literal(Bool(FALSE)), cur + 1)
    ELSE IF MatchTypes(T, cur, {"True"}) THEN POk(Literal(Bool(TRUE)), cur + 1)
    ELSE IF MatchTypes(T, cur, {"Nil"}) THEN POk(Literal(Nil), cur + 1)
    ELSE IF MatchTypes(T, cur, {"Number", "String_"})
    THEN LET l == Previous(T, cur + 1).literal IN
         POk(Literal(IF l = None THEN Nil ELSE l), cur + 1)
    ELSE IF MatchTypes(T, cur, {"Identifier"})
    THEN POk(Var(Previous(T, cur + 1).lexeme), cur + 1)
    ELSE IF MatchTypes(T, cur, {"LeftParen"})
    THEN Try(ParseExpression(T, cur + 1), LAMBDA expr :
         Try(Consume(T, expr.cur, "RightParen", "Expect ')' after expression."),
             LAMBDA closed : POk(Grouping(expr.v), closed.cur)))
    ELSE PErr(UnexpectedError, cur)

\* while self.match_types([Comma]) { args.push(self.expression()?); }
ArgsLoop(T, args, cur) ==
    IF MatchTypes(T, cur, {"Comma"})
    THEN Try(ParseExpression(T, cur + 1),
             LAMBDA arg : ArgsLoop(T, Append(args, arg.v), arg.cur))
    ELSE POk(args, cur)

\* Parser::finish_call.
FinishCall(T, callee, cur) ==
    Try(IF ~Check(T, cur, "RightParen")
        THEN Try(ParseExpression(T, cur), LAMBDA first : ArgsLoop(T, <<first.v>>, first.cur))
        ELSE POk(<<>>, cur),
        LAMBDA args :
    Try(Consume(T, args.cur, "RightParen", "Expect ')' after arguments."),
        LAMBDA paren : POk(Call(callee, args.v), paren.cur)))

\* The loop of Parser::call: expr.unwrap() panics on an Err.
CallLoop(T, expr, cur) ==
    IF MatchTypes(T, cur, {"LeftParen"})
    THEN IF expr.r # "ok" THEN PPanic(cur + 1)
         ELSE Then(FinishCall(T, expr.v, cur + 1), LAMBDA called :
                   IF called.r = "panic" THEN called ELSE CallLoop(T, called, called.cur))
    ELSE expr

\* Parser::call.
ParseCall(T, cur) ==
    Then(ParsePrimary(T, cur), LAMBDA expr :
         IF expr.r = "panic" THEN expr ELSE CallLoop(T, expr, expr.cur))

\* Parser::unary.
ParseUnary(T, cur) ==
    IF MatchTypes(T, cur, {"Bang", "Minus"})
    THEN Try(ParseUnary(T, cur + 1), LAMBDA right :
             POk(Unary(Previous(T, cur + 1).type, right.v), right.cur))
    ELSE ParseCall(T, cur)

\* The loop of Parser::factor.
FactorLoop(T, expr, cur) ==
    IF MatchTypes(T, cur, {"Slash", "Star"})
    THEN Try(ParseUnary(T, cur + 1), LAMBDA right :
             FactorLoop(T, Binary(expr, Previous(T, cur + 1).type, right.v), right.cur))
    ELSE POk(expr, cur)

\* Parser::factor.
ParseFactor(T, cur) ==
    Try(ParseUnary(T, cur), LAMBDA expr : FactorLoop(T, expr.v, expr.cur))

\* A loop of term that takes the whole rest of the chain as the right operand.
TermLoopRightAssociative(T, expr, cur) ==
    IF MatchTypes(T, cur, {"Minus", "Plus"})
    THEN Try(ParseTerm(T, cur + 1), LAMBDA right :
             POk(Binary(expr, Previous(T, cur + 1).type, right.v), right.cur))
    ELSE POk(expr, cur)

\* The loop of Parser::term.
TermLoop(T, expr, cur) ==
    IF MatchTypes(T, cur, {"Minus", "Plus"})
    THEN Try(ParseFactor(T, cur + 1), LAMBDA right :
             TermLoop(T, Binary(expr, Previous(T, cur + 1).type, right.v), right.cur))
    ELSE POk(expr, cur)

\* Parser::term.
ParseTerm(T, cur) ==
    Try(ParseFactor(T, cur), LAMBDA expr : TermLoop(T, expr.v, expr.cur))

\* The loop of Parser::comparison.
ComparisonLoop(T, expr, cur) ==
    IF MatchTypes(T, cur, {"Greater", "GreaterEqual", "Less", "LessEqual"})
    THEN Try(ParseTerm(T, cur + 1), LAMBDA right :
             ComparisonLoop(T, Binary(expr, Previous(T, cur + 1).type, right.v), right.cur))
    ELSE POk(expr, cur)

\* Parser::comparison.
ParseComparison(T, cur) ==
    Try(ParseTerm(T, cur), LAMBDA expr : ComparisonLoop(T, expr.v, expr.cur))

\* The loop of Parser::equality.
EqualityLoop(T, expr, cur) ==
    IF MatchTypes(T, cur, {"BangEqual", "EqualEqual"})
    THEN Try(ParseComparison(T, cur + 1), LAMBDA right :
             EqualityLoop(T, Binary(expr, Previous(T, cur + 1).type, right.v), right.cur))
    ELSE POk(expr, cur)

\* Parser::equality.
ParseEquality(T, cur) ==
    Try(ParseComparison(T, cur), LAMBDA expr : EqualityLoop(T, expr.v, expr.cur))

\* The loop of Parser::and.
AndLoop(T, expr, cur) ==
    IF MatchTypes(T, cur, {"And"})
    THEN Try(ParseEquality(T, cur + 1), LAMBDA right :
             AndLoop(T, Logical(expr, Previous(T, cur + 1).type, right.v), right.cur))
    ELSE POk(expr, cur)

\* Parser::and.
ParseAnd(T, cur) ==
    Try(ParseEquality(T, cur), LAMBDA expr : AndLoop(T, expr.v, expr.cur))

\* The loop of Parser::or.
OrLoop(T, expr, cur) ==
    IF MatchTypes(T, cur, {"Or"})
    THEN Try(ParseAnd(T, cur + 1), LAMBDA right :
             OrLoop(T, Logical(expr, Previous(T, cur + 1).type, right.v), right.cur))
    ELSE POk(expr, cur)

\* Parser::or.
ParseOr(T, cur) ==
    Try(ParseAnd(T, cur), LAMBDA expr : OrLoop(T, expr.v, expr.cur))

\* Parser::assignment.
ParseAssignment(T, cur) ==
    Try(ParseOr(T, cur), LAMBDA expr :
        IF MatchTypes(T, expr.cur, {"Equal"})
        THEN Try(ParseAssignment(T, expr.cur + 1), LAMBDA value :
                 IF expr.v.k = "Var"
                 THEN POk(AssignE(expr.v.name, value.v), value.cur)
                 ELSE PErr(InvalidAssignmentError(Previous(T, expr.cur + 1)), value.cur))
        ELSE expr)

\* Parser::expression.
ParseExpression(T, cur) == ParseAssignment(T, cur)

RECURSIVE Declaration(_, _), Statement(_, _), ParseBlock(_, _), BlockLoop(_, _, _)
RECURSIVE ParseFunction(_, _, _), ForStatement(_, _)
RECURSIVE IfStatement(_, _), WhileStatement(_, _)

\* Parser::expression_statement.
ExpressionStatement(T, cur) ==
    Try(ParseExpression(T, cur), LAMBDA expr :
    Try(Consume(T, expr.cur, "Semicolon", "Expect ';' after expression."),
        LAMBDA semi : POk(ExpressionS(expr.v), semi.cur)))

\* Parser::print_statement.
PrintStatement(T, cur) ==
    Try(ParseExpression(T, cur), LAMBDA value :
    Try(Consume(T, value.cur, "Semicolon", "Expect ';' after value."),
        LAMBDA semi : POk(PrintS(value.v), semi.cur)))

\* Parser::while_statement.
WhileStatement(T, cur) ==
    Try(Consume(T, cur, "LeftParen", "Expect '(' after 'while'."), LAMBDA open :
    Try(ParseExpression(T, open.cur), LAMBDA condition :
    Try(Consume(T, condition.cur, "RightParen", "Expect ')' after condition."), LAMBDA close :
    Try(Statement(T, close.cur), LAMBDA body :
        POk(WhileS(condition.v, body.v), body.cur)))))

\* Parser::if_statement.
IfStatement(T, cur) ==
    Try(Consume(T, cur, "LeftParen", "Expect '(' after if."), LAMBDA open :
    Try(ParseExpression(T, open.cur), LAMBDA condition :
    Try(Consume(T, condition.cur, "RightParen", "Expect ')' after if condition."), LAMBDA close :
    Try(Statement(T, close.cur), LAMBDA thenBranch :
        IF MatchTypes(T, thenBranch.cur, {"Else"})
        THEN Try(Statement(T, thenBranch.cur + 1), LAMBDA elseBranch :
                 POk(IfS(condition.v, thenBranch.v, elseBranch.v), elseBranch.cur))
        ELSE POk(IfS(condition.v, thenBranch.v, None), thenBranch.cur)))))

\* Parser::var_declaration: an Err of the initializer's expression is turned
\* into None by .ok().
VarDeclaration(T, cur) ==
    Try(Consume(T, cur, "Identifier", "Expect variable name."), LAMBDA name :
    TryOption(IF MatchTypes(T, name.cur, {"Equal"})
              THEN ParseExpression(T, name.cur + 1)
              ELSE Absent(name.cur), LAMBDA initializer :
    Try(Consume(T, initializer.cur, "Semicolon", "Expect ';' after value."), LAMBDA semi :
        POk(VarS(name.v.lexeme, OkOption(initializer)), semi.cur))))

\* Parser::for_statement. initializer, condition and increment are Options
\* made by .ok(); the last test unwraps the initializer.
ForStatement(T, cur) ==
    Try(Consume(T, cur, "LeftParen", "Expect '(' after 'for'."), LAMBDA open :
    TryOption(IF MatchTypes(T, open.cur, {"Semicolon"}) THEN Absent(open.cur + 1)
              ELSE IF MatchTypes(T, open.cur, {"Var"}) THEN VarDeclaration(T, open.cur + 1)
              ELSE ExpressionStatement(T, open.cur), LAMBDA initializer :
    TryOption(IF ~Check(T, initializer.cur, "Semicolon")
              THEN ParseExpression(T, initializer.cur)
              ELSE Absent(initializer.cur), LAMBDA condition :
    Try(Consume(T, condition.cur, "Semicolon", "Expect ';' after loop condition."),
        LAMBDA semi :
    TryOption(IF ~Check(T, semi.cur, "RightParen")
              THEN ParseExpression(T, semi.cur)
              ELSE Absent(semi.cur), LAMBDA increment :
    Try(Consume(T, increment.cur, "RightParen", "Expect ')' after for clauses."),
        LAMBDA close :
    Try(Statement(T, close.cur), LAMBDA statement :
        LET body == IF OkOption(increment) # None
                    THEN BlockS(<<statement.v, ExpressionS(OkOption(increment))>>)
                    ELSE statement.v
            loop == WhileS(IF OkOption(condition) = None THEN Literal(Bool(TRUE))
                           ELSE OkOption(condition), body)
        IN  IF OkOption(initializer) = None THEN PPanic(statement.cur)
            ELSE POk(BlockS(<<OkOption(initializer), loop>>), statement.cur))))))))

\* The loop of Parser::block.
BlockLoop(T, statements, cur) ==
    IF ~Check(T, cur, "RightBrace") /\ ~ParserIsAtEnd(T, cur)
    THEN Try(Declaration(T, cur), LAMBDA d : BlockLoop(T, Append(statements, d.v), d.cur))
    ELSE POk(statements, cur)

\* Parser::block.
ParseBlock(T, cur) ==
    Try(BlockLoop(T, <<>>, cur), LAMBDA statements :
    Try(Consume(T, statements.cur, "RightBrace", "Expect '}' after block."),
        LAMBDA close : POk(statements.v, close.cur)))

\* Parser::statement.
Statement(T, cur) ==
    IF MatchTypes(T, cur, {"For"}) THEN ForStatement(T, cur + 1)
    ELSE IF MatchTypes(T, cur, {"If"}) THEN IfStatement(T, cur + 1)
    ELSE IF MatchTypes(T, cur, {"Print"}) THEN PrintStatement(T, cur + 1)
    ELSE IF MatchTypes(T, cur, {"While"}) THEN WhileStatement(T, cur + 1)
    ELSE IF MatchTypes(T, cur, {"LeftBrace"})
    THEN Try(ParseBlock(T, cur + 1), LAMBDA block : POk(BlockS(block.v), block.cur))
    ELSE ExpressionStatement(T, cur)

\* Whether turn j (from 0) of the loop of Parser::function, entered with the
\* cursor at cur, finds a comma and a parameter name after it.
ParameterFollows(T, cur, j) ==
    /\ Check(T, cur + 2 * j, "Comma")
    /\ Check(T, cur + 2 * j + 1, "Identifier")

\* The loop of Parser::function over the parameters after the first. Each turn
\* tests the count, then looks for a comma, then pushes the name after it; the
\* turns that push are the first k, taken together here (the loop runs up to
\* MaxParameters turns).
ParamsLoop(T, parameters, cur) ==
    LET room == IF Len(parameters) >= MaxParameters THEN 0
                ELSE MaxParameters - Len(parameters)
    IN  Then(CHOOSE n \in 0..room :
                /\ \A j \in 0..(n - 1) : ParameterFollows(T, cur, j)
                /\ n = room \/ ~ParameterFollows(T, cur, n),
             LAMBDA k :
        Then(parameters \o [j \in 1..k |-> T[cur + 2 * j].lexeme], LAMBDA pushed :
             IF Len(pushed) >= MaxParameters
             THEN PErr(MaxParameterLimitError, cur + 2 * k)
             ELSE IF ~MatchTypes(T, cur + 2 * k, {"Comma"}) THEN POk(pushed, cur + 2 * k)
             ELSE Consume(T, cur + 2 * k + 1, "Identifier", "Expect parameter name.")))

\* Parser::function. The results of consume for '(' , ')' and '{' are not
\* looked at. The statement keeps the name and the parameters by lexeme.
ParseFunction(T, cur, kind) ==
    Try(Consume(T, cur, "Identifier", "Expect" \o kind \o "name."), LAMBDA name :
    Then(Consume(T, name.cur, "LeftParen", "Expect ( after" \o kind \o "name."),
         LAMBDA open :
    Try(IF ~Check(T, open.cur, "RightParen")
        THEN Try(Consume(T, open.cur, "Identifier", "Expect parameter name."),
                 LAMBDA first : ParamsLoop(T, <<first.v.lexeme>>, first.cur))
        ELSE POk(<<>>, open.cur), LAMBDA parameters :
    Then(Consume(T, parameters.cur, "RightParen", "Expect ')' after parameters"),
         LAMBDA close :
    Then(Consume(T, close.cur, "LeftBrace", "Expect '{' before" \o kind \o "name."),
         LAMBDA brace :
    Try(ParseBlock(T, brace.cur), LAMBDA body :
        POk(FunctionS(name.v.lexeme, parameters.v, body.v), body.cur)))))))

\* Parser::declaration.
Declaration(T, cur) ==
    IF MatchTypes(T, cur, {"Fun"}) THEN ParseFunction(T, cur + 1, "function")
    ELSE IF MatchTypes(T, cur, {"Var"}) THEN VarDeclaration(T, cur + 1)
    ELSE Statement(T, cur)

\* Parser::new. statements is the vector parse builds; error is the RoxError
\* that unwrap met when parse panicked on an Err, None otherwise.
ParserNew(tokens) ==
    [state |-> "parsing", tokens |-> tokens, current |-> 0, statements |-> <<>>,
     error |-> None]

\* The longest operator chain among the programs.
MaxChainOps == 3

\* Tokens as the scanner makes them, all on line 1.
Sym(type, lexeme) == Token(type, lexeme, None, 1)

Ident(name) == Token("Identifier", name, None, 1)

NumberToken(n) == Token("Number", <<DigitChars[n + 1]>>, Number(n), 1)

EofToken == Token("Eof", <<>>, None, 1)

ChainOps ==
    {"Star", "Slash", "Plus", "Minus", "Greater", "GreaterEqual", "Less", "LessEqual",
     "BangEqual", "EqualEqual", "And", "Or"}

\* 1 op 2 op 3 ... ;
ChainTokens(ops) ==
    [i \in 1..(2 * Len(ops) + 1) |->
        IF i % 2 = 1 THEN NumberToken((i + 1) \div 2) ELSE Sym(ops[i \div 2], <<>>)]
    \o <<Sym("Semicolon", <<";">>), EofToken>>

ChainPrograms ==
    {[kind |-> "chain", ops |-> ops] :
        ops \in UNION {[1..n -> ChainOps] : n \in 1..MaxChainOps}}

\* for ( [var i = 0 | i = 0] ; [i < 3] ; [i = i + 1] ) print i ;
ForInitTokens(init) ==
    CASE init = "none" -> <<Sym("Semicolon", <<";">>)>>
      [] init = "var" -> <<Sym("Var", <<"v", "a", "r">>), Ident(<<"i">>), Sym("Equal", <<"=">>),
                           NumberToken(0), Sym("Semicolon", <<";">>)>>
      [] init = "expr" -> <<Ident(<<"i">>), Sym("Equal", <<"=">>), NumberToken(0),
                            Sym("Semicolon", <<";">>)>>

ForTokens(init, cond, incr) ==
    <<Sym("For", <<"f", "o", "r">>), Sym("LeftParen", <<"(">>)>>
    \o ForInitTokens(init)
    \o (IF cond THEN <<Ident(<<"i">>), Sym("Less", <<"<">>), NumberToken(3)>> ELSE <<>>)
    \o <<Sym("Semicolon", <<";">>)>>
    \o (IF incr THEN <<Ident(<<"i">>), Sym("Equal", <<"=">>), Ident(<<"i">>),
                       Sym("Plus", <<"+">>), NumberToken(1)>> ELSE <<>>)
    \o <<Sym("RightParen", <<")">>), Sym("Print", <<"p", "r", "i", "n", "t">>), Ident(<<"i">>),
         Sym("Semicolon", <<";">>), EofToken>>

ForPrograms ==
    {[kind |-> "for", init |-> init, cond |-> cond, incr |-> incr] :
        init \in {"none", "var", "expr"}, cond \in BOOLEAN, incr \in BOOLEAN}

\* fun f ( p1 , p2 , ... , pn ) { print 1 ; }
ParamName(i) == <<"p", ToString(i)>>

ParamTokens(n) ==
    [i \in 1..(IF n = 0 THEN 0 ELSE 2 * n - 1) |->
        IF i % 2 = 1 THEN Ident(ParamName((i + 1) \div 2)) ELSE Sym("Comma", <<",">>)]

FunTokens(n) ==
    <<Sym("Fun", <<"f", "u", "n">>), Ident(<<"f">>), Sym("LeftParen", <<"(">>)>>
    \o ParamTokens(n)
    \o <<Sym("RightParen", <<")">>), Sym("LeftBrace", <<"{">>),
         Sym("Print", <<"p", "r", "i", "n", "t">>), NumberToken(1), Sym("Semicolon", <<";">>),
         Sym("RightBrace", <<"}">>), EofToken>>

ParamCounts == {0, 1, 2, MaxParameters - 1, MaxParameters, MaxParameters + 1}

FunPrograms == {[kind |-> "fun", n |-> n] : n \in ParamCounts}

\* Other programs, well-formed and not, by their token types.
PlainToken(type) ==
    CASE type = "Number" -> NumberToken(1)
      [] type = "Identifier" -> Ident(<<"a">>)
      [] type = "String_" -> Token("String_", <<Quote, "a", Quote>>, String_(<<"a">>), 1)
      [] type = "Eof" -> EofToken
      [] OTHER -> Sym(type, <<>>)

\* fun a ) { }    fun a ( a { }    fun a ( ) }
FunctionsMissingADelimiter ==
    {<<"Fun", "Identifier", "RightParen", "LeftBrace", "RightBrace">>,
     <<"Fun", "Identifier", "LeftParen", "Identifier", "LeftBrace", "RightBrace">>,
     <<"Fun", "Identifier", "LeftParen", "RightParen", "RightBrace">>}

\* var a = ;    var a = 1 = 1 ;    for ( a ; ; 1 = 1 ) print 1 ;
\* for ( a ; 1 = 1 ; ) print 1 ;
MalformedExpressionClauses ==
    {<<"Var", "Identifier", "Equal", "Semicolon">>,
     <<"Var", "Identifier", "Equal", "Number", "Equal", "Number", "Semicolon">>,
     <<"For", "LeftParen", "Identifier", "Semicolon", "Semicolon", "Number", "Equal",
       "Number", "RightParen", "Print", "Number", "Semicolon">>,
     <<"For", "LeftParen", "Identifier", "Semicolon", "Number", "Equal", "Number",
       "Semicolon", "RightParen", "Print", "Number", "Semicolon">>}

TypeSequences ==
    FunctionsMissingADelimiter \cup MalformedExpressionClauses \cup
    {<<"Print", "Number", "Semicolon", "Print", "Number", "Semicolon">>,
     <<"Print", "Number", "Semicolon", "Print", "Semicolon">>,
     <<"Print", "Number">>,
     <<"Number", "Equal", "Number", "Semicolon">>,
     <<"LeftParen", "Number", "Semicolon">>,
     <<"LeftParen", "Number", "RightParen", "Semicolon">>,
     <<"Var", "Semicolon">>,
     <<"Var", "Identifier", "Semicolon">>,
     <<"Var", "Identifier", "Equal", "String_", "Semicolon">>,
     <<"Identifier", "LeftParen", "Number", "Comma", "Number", "RightParen", "Semicolon">>,
     <<"Identifier", "LeftParen", "RightParen", "LeftParen", "RightParen", "Semicolon">>,
     <<"Identifier", "LeftParen", "Number", "Semicolon">>,
     <<"Bang", "Minus", "True", "Semicolon">>,
     <<"If", "LeftParen", "False", "RightParen", "Print", "Nil", "Semicolon",
       "Else", "Print", "Number", "Semicolon">>,
     <<"If", "LeftParen", "Identifier", "RightParen", "Identifier", "Semicolon">>,
     <<"While", "LeftParen", "True", "RightParen", "LeftBrace", "Var", "Identifier",
       "Semicolon", "RightBrace">>,
     <<"While", "True", "Semicolon">>,
     <<"LeftBrace", "Print", "Number", "Semicolon">>,
     <<"Fun", "LeftParen", "RightParen", "LeftBrace", "RightBrace">>,
     <<"Fun", "Identifier", "LeftBrace", "RightBrace">>,
     <<"Fun", "Identifier", "LeftParen", "Number", "RightParen", "LeftBrace", "RightBrace">>,
     <<"For", "LeftParen", "Identifier", "Semicolon", "Semicolon", "RightParen",
       "Semicolon">>,
     <<>>}

TokenPrograms == {[kind |-> "tokens", types |-> types] : types \in TypeSequences}

ParserPrograms == ChainPrograms \cup ForPrograms \cup FunPrograms \cup TokenPrograms

TokensOf(program) ==
    CASE program.kind = "chain" -> ChainTokens(program.ops)
      [] program.kind = "for" -> ForTokens(program.init, program.cond, program.incr)
      [] program.kind = "fun" -> FunTokens(program.n)
      [] program.kind = "tokens" ->
           [i \in 1..(Len(program.types) + 1) |->
              IF i <= Len(program.types) THEN PlainToken(program.types[i]) ELSE EofToken]

\* main.rs run, from Parser::new on; last remembers the program the tokens
\* were made from.
InitParse ==
    /\ env = EnvironmentNew(<<>>)
    /\ environment = NewGlobals
    /\ globals = NewGlobals
    /\ output = <<>>
    /\ status = "running"
    /\ scanner = IdleScanner
    /\ \E program \in ParserPrograms :
          /\ last = [op |-> "parse", program |-> program]
          /\ parser = ParserNew(TokensOf(program))

\* One turn of the loop of Parser::parse:
\* statements.push(self.declaration().unwrap()).
ParseStep ==
    /\ parser.state = "parsing"
    /\ ~ParserIsAtEnd(parser.tokens, parser.current)
    /\ \E d \in {Declaration(parser.tokens, parser.current)} :
          parser' = IF d.r = "ok"
                    THEN [parser EXCEPT !.statements = Append(@, d.v), !.current = d.cur]
                    ELSE [parser EXCEPT !.state = "panicked", !.current = d.cur,
                                        !.error = IF d.r = "err" THEN d.e ELSE None]
    /\ UNCHANGED <<env, environment, globals, output, status, last, scanner>>

\* The loop of Parser::parse has ended: the statements are returned.
ParseDone ==
    /\ parser.state = "parsing"
    /\ ParserIsAtEnd(parser.tokens, parser.current)
    /\ parser' = [parser EXCEPT !.state = "done"]
    /\ UNCHANGED <<env, environment, globals, output, status, last, scanner>>

\* main.rs run: Interpreter::new(), interpreter.interpret(&statements).
RunInterpret ==
    /\ parser.state = "done"
    /\ parser' = [parser EXCEPT !.state = "interpreted"]
    /\ environment' = Interpret(parser.statements, NewGlobals)
    /\ UNCHANGED <<env, globals, output, status, last, scanner>>

NextParse == ParseStep \/ ParseDone \/ RunInterpret

SpecParse == InitParse /\ [][NextParse]_vars

\* run is straight-line code: it goes on until it returns or panics.
SpecParseLive == SpecParse /\ WF_vars(NextParse)

\* ------------------------------------------------------------ Parser claims

\* parse has run to its end, one way or another.
ParseEnded == parser.state \in {"done", "interpreted", "panicked"}

\* C11: parsing a token sequence that ends in Eof never aborts the process,
\* whatever parse error it meets; and when parse has returned its statements,
\* which is when the evaluator runs on them, it met no error and consumed
\* every token up to Eof.
C11_ParseYieldsStatementsOrAParseError ==
    /\ parser.state # "panicked"
    /\ parser.state \in {"done", "interpreted"}
       => /\ parser.error = None
          /\ ParserIsAtEnd(parser.tokens, parser.current)

\* The while desugaring of for ( init ; cond ; incr ) print i ;
ForDesugared(program) ==
    LET i == Var(<<"i">>)
        statement == PrintS(i)
        increment == ExpressionS(AssignE(<<"i">>, Binary(i, "Plus", Literal(Number(1)))))
        body == IF program.incr THEN BlockS(<<statement, increment>>) ELSE statement
        condition == IF program.cond THEN Binary(i, "Less", Literal(Number(3)))
                     ELSE Literal(Bool(TRUE))
        loop == WhileS(condition, body)
    IN  CASE program.init = "none" -> loop
          [] program.init = "var" -> BlockS(<<VarS(<<"i">>, Literal(Number(0))), loop>>)
          [] program.init = "expr" ->
               BlockS(<<ExpressionS(AssignE(<<"i">>, Literal(Number(0)))), loop>>)

\* C12: a well-formed for statement, with any of its initializer, condition
\* and increment present or absent, parses to its while desugaring.
C12_ForParsesToItsWhileDesugaring ==
    (ParseEnded /\ last.program.kind = "for")
    => /\ parser.state # "panicked"
       /\ parser.statements = <<ForDesugared(last.program)>>

\* C13: fun f(p1, ..., pn) { print 1; } parses to the Function statement with
\* those n parameters in order for n up to and including MaxParameters, and
\* meets the max-parameter-limit error for n above it.
C13_UpToMaxParametersParse ==
    (ParseEnded /\ last.program.kind = "fun")
    => IF last.program.n <= MaxParameters
       THEN /\ parser.state # "panicked"
            /\ parser.statements =
                 <<FunctionS(<<"f">>, [i \in 1..last.program.n |-> ParamName(i)],
                             <<PrintS(Literal(Number(1)))>>)>>
       ELSE parser.error = MaxParameterLimitError

\* The precedence level of a binary operator: the higher binds tighter.
Level(op) ==
    CASE op \in {"Star", "Slash"} -> 6
      [] op \in {"Plus", "Minus"} -> 5
      [] op \in {"Greater", "GreaterEqual", "Less", "LessEqual"} -> 4
      [] op \in {"BangEqual", "EqualEqual"} -> 3
      [] op = "And" -> 2
      [] op = "Or" -> 1

\* The tree of the reference grammar for operands first..(first + Len(ops))
\* joined by ops: the root is the last of the operators of the lowest level.
RECURSIVE Reference(_, _)
Reference(first, ops) ==
    IF ops = <<>> THEN Literal(Number(first))
    ELSE LET lowest == CHOOSE i \in 1..Len(ops) :
                          \A j \in 1..Len(ops) :
                              \/ Level(ops[j]) > Level(ops[i])
                              \/ Level(ops[j]) = Level(ops[i]) /\ j <= i
             left == Reference(first, SubSeq(ops, 1, lowest - 1))
             right == Reference(first + lowest, SubSeq(ops, lowest + 1, Len(ops)))
         IN  IF ops[lowest] \in {"And", "Or"}
             THEN Logical(left, ops[lowest], right)
             ELSE Binary(left, ops[lowest], right)

\* C14: a chain of operands joined by binary operators parses to the tree of
\* the reference grammar: * / bind tighter than + -, then the comparisons,
\* then equality, then and, then or, and one level associates to the left.
C14_ChainParsesToReferenceTree ==
    (ParseEnded /\ last.program.kind = "chain")
    => /\ parser.state # "panicked"
       /\ parser.statements = <<ExpressionS(Reference(1, last.program.ops))>>

\* 1 - 2 * 3 - 4 has been parsed as (1 - (2 * 3)) - 4.
C14_Witness ==
    /\ parser.state = "done"
    /\ last.program = [kind |-> "chain", ops |-> <<"Minus", "Star", "Minus">>]
    /\ parser.statements =
         <<ExpressionS(Binary(Binary(Literal(Number(1)), "Minus",
                                     Binary(Literal(Number(2)), "Star", Literal(Number(3)))),
                              "Minus", Literal(Number(4))))>>

\* C23: a function declaration that lacks its '(' , its ')' or its '{', and a
\* var declaration or for clause whose expression after '=' is missing or
\* malformed, end in a parse error: no statement is made of them.
C23_MalformedDeclarationsAreParseErrors ==
    (/\ ParseEnded
     /\ last.program.kind = "tokens"
     /\ last.program.types \in FunctionsMissingADelimiter \cup MalformedExpressionClauses)
    => /\ parser.statements = <<>>
       /\ parser.error # None

\* The index of the Eof token, counted from 0 as the cursor is.
EofIndex == Len(parser.tokens) - 1

\* C24: the cursor never passes the Eof token; a turn of parse's loop that
\* returns a statement has consumed at least one token, and any other turn
\* ends parse; and parse comes to an end.
C24_ParsingMakesProgressInBounds ==
    /\ [](parser.current <= EofIndex)
    /\ [][(parser.state = "parsing" /\ parser'.state = "parsing")
          => /\ Len(parser'.statements) = Len(parser.statements) + 1
             /\ parser'.current > parser.current]_vars
    /\ <>ParseEnded

\* Between two statements of  print 1; print 1;  : one is parsed, the cursor
\* is past it and before Eof.
C24_Witness ==
    /\ parser.state = "parsing"
    /\ Len(parser.statements) = 1
    /\ parser.current = 3
    /\ parser.current < EofIndex

====
